---- MODULE Spec2Model ----
(***************************************************************************)
(* Walking-distance tracker (app.py).                                      *)
(*                                                                         *)
(* Two specifications over one set of variables:                           *)
(*   Spec    one run of calculate_walking_distance_with_breaks: the        *)
(*           segment-splitting loop, then one routing call per segment     *)
(*           (Mapbox, or OSRM when no token is configured);                *)
(*   SpecDb  the locations table and the HTTP handlers that read and write *)
(*           it (add_location, delete_location, toggle_break_after,        *)
(*           get_locations_by_date).                                       *)
(*                                                                         *)
(* Distances are integers: metres from the provider, hundredths of a       *)
(* kilometre after the conversion round(metres / 1000, 2).                 *)
(***************************************************************************)
EXTENDS Integers, Sequences, FiniteSets, TLC

\* ------------------------------------------------------------------ bounds
MaxLen == 4         \* longest waypoint list handed to the aggregator
MaxInserts == 3     \* number of add_location requests served

\* --------------------------------------------------------------- variables
VARIABLES
    MAPBOX_TOKEN,       \* TRUE iff the MAPBOX_TOKEN environment variable is non-empty
    locations,          \* argument of calculate_walking_distance_with_breaks
    pc,                 \* position in calculate_walking_distance_with_breaks
    i,                  \* number of loop iterations of the splitting loop done
    segments,           \* list of emitted segments
    current_segment,    \* the segment buffer
    seg_idx,            \* number of segments the routing loop has handled
    total_distance,     \* running sum, hundredths of a km
    route_geometries,   \* geometries collected so far
    calls,              \* HTTP requests sent to the routing providers, in order
    results,            \* (distance, geometry) returned by each route call
    rows,               \* the locations table
    last_rowid,         \* AUTOINCREMENT counter of the table
    listed,             \* locations_list of the last get_locations_by_date
    listed_date,        \* the date that listing was for ("" before any listing)
    inserted_before,    \* id -> number of add_location calls for the row's date before it
    deleted             \* TRUE once a delete_location removed a row

aggVars == <<MAPBOX_TOKEN, locations, pc, i, segments, current_segment, seg_idx,
             total_distance, route_geometries, calls, results>>
dbVars == <<rows, last_rowid, listed, listed_date, inserted_before, deleted>>
vars == <<MAPBOX_TOKEN, locations, pc, i, segments, current_segment, seg_idx,
          total_distance, route_geometries, calls, results,
          rows, last_rowid, listed, listed_date, inserted_before, deleted>>

\* ------------------------------------------------------------ data model
\* Python None for a geometry; a GeoJSON geometry is a non-empty coordinate list.
None == <<>>

\* break_after column values: 0 (default) and 1.
BreakValues == {0, 1}

\* The k-th waypoint of a date: its own coordinates, and a break flag.
Waypoint(k, b) == [id |-> k, latitude |-> k, longitude |-> 0 - k, break_after |-> b]

\* Every ordered waypoint list of up to MaxLen waypoints with every flag assignment.
LocationLists ==
    UNION {{[k \in 1..n |-> Waypoint(k, f[k])] : f \in [1..n -> BreakValues]} : n \in 0..MaxLen}

\* Distances (metres) a provider may report; 4 m rounds to 0.00 km.
Meters == {4, 1234}

\* coords = ';'.join(f"{loc['longitude']},{loc['latitude']}" ...): lon first, then lat.
Coords(locs) == [k \in 1..Len(locs) |-> <<locs[k].longitude, locs[k].latitude>>]

\* round(distance_meters / 1000, 2), in hundredths of a km (Meters has no ties).
RoundKm(m) == (m + 5) \div 10

\* What requests.get / response.json() can produce for one request:
\*   exc   exception raised by requests.get ("none" when a response arrived)
\*   json  the body parses as a JSON object
\*   code  the provider's status field of the body
\*   routes the candidate routes of the body
Responses(coords) ==
    {[exc |-> e, json |-> FALSE, code |-> "none", routes |-> <<>>] :
        e \in {"Timeout", "ConnectionError", "none"}}
    \cup
    {[exc |-> "none", json |-> TRUE, code |-> c, routes |-> r] :
        c \in {"Ok", "NoRoute"},
        r \in {<<>>} \cup {<<[distance |-> m, geometry |-> coords]>> : m \in Meters}}

\* ------------------------------------------------------ routing functions
\* try-block of calculate_walking_distance_osrm; exc names the exception it raises.
osrm_try(resp) ==
    IF resp.exc # "none" THEN [exc |-> resp.exc, distance |-> 0, geometry |-> None]
    ELSE IF ~resp.json THEN [exc |-> "JSONDecodeError", distance |-> 0, geometry |-> None]
    ELSE IF resp.code = "Ok"
         THEN IF resp.routes = <<>>
              THEN [exc |-> "IndexError", distance |-> 0, geometry |-> None]
              ELSE [exc |-> "none",
                    distance |-> RoundKm(resp.routes[1].distance),
                    geometry |-> resp.routes[1].geometry]
         ELSE [exc |-> "none", distance |-> 0, geometry |-> None]

\* The except clause catches only the network errors of requests.
calculate_walking_distance_osrm_narrow_except(locs, resp) ==
    IF Len(locs) < 2
    THEN [distance |-> 0, geometry |-> None, raised |-> FALSE, calls |-> <<>>]
    ELSE LET r == osrm_try(resp)
             call == [provider |-> "osrm", coords |-> Coords(locs), resp |-> resp]
         IN  IF r.exc \in {"Timeout", "ConnectionError"}
             THEN [distance |-> 0, geometry |-> None, raised |-> FALSE, calls |-> <<call>>]
             ELSE [distance |-> r.distance, geometry |-> r.geometry,
                   raised |-> r.exc # "none", calls |-> <<call>>]

calculate_walking_distance_osrm(locs, resp) ==
    IF Len(locs) < 2
    THEN [distance |-> 0, geometry |-> None, raised |-> FALSE, calls |-> <<>>]
    ELSE LET r == osrm_try(resp)
             call == [provider |-> "osrm", coords |-> Coords(locs), resp |-> resp]
         IN  IF r.exc # "none"      \* bare except: return 0, None
             THEN [distance |-> 0, geometry |-> None, raised |-> FALSE, calls |-> <<call>>]
             ELSE [distance |-> r.distance, geometry |-> r.geometry,
                   raised |-> FALSE, calls |-> <<call>>]

\* try-block of calculate_walking_distance (Mapbox).
mapbox_try(resp) ==
    IF resp.exc # "none" THEN [exc |-> resp.exc, distance |-> 0, geometry |-> None]
    ELSE IF ~resp.json THEN [exc |-> "JSONDecodeError", distance |-> 0, geometry |-> None]
    ELSE IF resp.code = "Ok" /\ resp.routes # <<>>
         THEN [exc |-> "none",
               distance |-> RoundKm(resp.routes[1].distance),
               geometry |-> resp.routes[1].geometry]
         ELSE [exc |-> "none", distance |-> 0, geometry |-> None]

\* The token check is missing: Mapbox is asked even without a credential.
calculate_walking_distance_no_fallback(locs, resp) ==
    IF Len(locs) < 2
    THEN [distance |-> 0, geometry |-> None, raised |-> FALSE, calls |-> <<>>]
    ELSE LET r == mapbox_try(resp)
             call == [provider |-> "mapbox", coords |-> Coords(locs), resp |-> resp]
         IN  IF r.exc # "none"
             THEN [distance |-> 0, geometry |-> None, raised |-> FALSE, calls |-> <<call>>]
             ELSE [distance |-> r.distance, geometry |-> r.geometry,
                   raised |-> FALSE, calls |-> <<call>>]

calculate_walking_distance(locs, resp) ==
    IF Len(locs) < 2
    THEN [distance |-> 0, geometry |-> None, raised |-> FALSE, calls |-> <<>>]
    ELSE IF ~MAPBOX_TOKEN
    THEN calculate_walking_distance_osrm(locs, resp)
    ELSE LET r == mapbox_try(resp)
             call == [provider |-> "mapbox", coords |-> Coords(locs), resp |-> resp]
         IN  IF r.exc # "none"      \* bare except: return 0, None
             THEN [distance |-> 0, geometry |-> None, raised |-> FALSE, calls |-> <<call>>]
             ELSE [distance |-> r.distance, geometry |-> r.geometry,
                   raised |-> FALSE, calls |-> <<call>>]

\* ------------------------------------------------------- segment splitting
\* The segment is emitted as soon as it has one waypoint.
EndSegment_min1(segs, cur, isLast) ==
    IF Len(cur) >= 1 THEN Append(segs, cur)
    ELSE segs

\* The trailing single waypoint is dropped instead of merged.
EndSegment_no_merge(segs, cur, isLast) ==
    IF Len(cur) >= 2 THEN Append(segs, cur)
    ELSE segs

\* The buffer is emitted whatever its length.
EndSegment_always(segs, cur, isLast) ==
    Append(segs, cur)

\* Lines 129-133: what closing the buffer `cur` does to the list of segments.
EndSegment(segs, cur, isLast) ==
    IF Len(cur) >= 2 THEN Append(segs, cur)
    ELSE IF Len(cur) = 1 /\ isLast /\ Len(segs) > 0
         THEN [segs EXCEPT ![Len(segs)] = Append(@, cur[1])]
         ELSE segs

\* ------------------------------------------------------------- aggregator
dbIdle ==
    /\ rows = {}
    /\ last_rowid = 0
    /\ listed = <<>>
    /\ listed_date = ""
    /\ inserted_before = <<>>
    /\ deleted = FALSE

Init ==
    /\ MAPBOX_TOKEN \in BOOLEAN
    /\ locations \in LocationLists
    /\ pc = "start"
    /\ i = 0
    /\ segments = <<>>
    /\ current_segment = <<>>
    /\ seg_idx = 0
    /\ total_distance = 0
    /\ route_geometries = <<>>
    /\ calls = <<>>
    /\ results = <<>>
    /\ dbIdle

\* Lines 117-122: early return for fewer than 2 locations, else enter the loop.
Start ==
    /\ pc = "start"
    /\ pc' = IF Len(locations) < 2 THEN "done" ELSE "split"
    /\ UNCHANGED <<MAPBOX_TOKEN, locations, i, segments, current_segment, seg_idx,
                   total_distance, route_geometries, calls, results>>
    /\ UNCHANGED dbVars

\* Lines 124-134: one iteration of the splitting loop.
SplitStep ==
    /\ pc = "split"
    /\ i < Len(locations)
    /\ LET loc == locations[i + 1]
           cur == Append(current_segment, loc)
           isLast == (i + 1 = Len(locations))
       IN  IF loc.break_after = 1 \/ isLast
           THEN /\ segments' = EndSegment(segments, cur, isLast)
                /\ current_segment' = <<>>
           ELSE /\ segments' = segments
                /\ current_segment' = cur
    /\ i' = i + 1
    /\ pc' = IF i + 1 = Len(locations) THEN "route" ELSE "split"
    /\ UNCHANGED <<MAPBOX_TOKEN, locations, seg_idx,
                   total_distance, route_geometries, calls, results>>
    /\ UNCHANGED dbVars

\* The running total is overwritten instead of accumulated.
RouteStep_overwrite ==
    /\ pc = "route"
    /\ seg_idx < Len(segments)
    /\ LET segment == segments[seg_idx + 1]
       IN  \E resp \in Responses(Coords(segment)) :
             LET r == calculate_walking_distance(segment, resp)
             IN  /\ calls' = calls \o r.calls
                 /\ total_distance' = r.distance
                 /\ route_geometries' = IF r.geometry # None
                                        THEN Append(route_geometries, r.geometry)
                                        ELSE route_geometries
                 /\ results' = Append(results, [distance |-> r.distance,
                                                geometry |-> r.geometry])
                 /\ seg_idx' = seg_idx + 1
                 /\ pc' = "route"
    /\ UNCHANGED <<MAPBOX_TOKEN, locations, i, segments, current_segment>>
    /\ UNCHANGED dbVars

\* Lines 140-145: one iteration of the routing loop.
RouteStep ==
    /\ pc = "route"
    /\ seg_idx < Len(segments)
    /\ LET segment == segments[seg_idx + 1]
       IN  \E resp \in Responses(Coords(segment)) :
             IF Len(segment) >= 2
             THEN LET r == calculate_walking_distance(segment, resp)
                  IN  IF r.raised
                      THEN /\ pc' = "raised"
                           /\ calls' = calls \o r.calls
                           /\ UNCHANGED <<total_distance, route_geometries,
                                          results, seg_idx>>
                      ELSE /\ calls' = calls \o r.calls
                           /\ total_distance' = total_distance + r.distance
                           /\ route_geometries' = IF r.geometry # None
                                                  THEN Append(route_geometries, r.geometry)
                                                  ELSE route_geometries
                           /\ results' = Append(results, [distance |-> r.distance,
                                                          geometry |-> r.geometry])
                           /\ seg_idx' = seg_idx + 1
                           /\ pc' = "route"
             ELSE /\ seg_idx' = seg_idx + 1
                  /\ UNCHANGED <<pc, calls, total_distance, route_geometries, results>>
    /\ UNCHANGED <<MAPBOX_TOKEN, locations, i, segments, current_segment>>
    /\ UNCHANGED dbVars

\* Line 147: return total_distance, route_geometries.
Return ==
    /\ pc = "route"
    /\ seg_idx = Len(segments)
    /\ pc' = "done"
    /\ UNCHANGED <<MAPBOX_TOKEN, locations, i, segments, current_segment, seg_idx,
                   total_distance, route_geometries, calls, results>>
    /\ UNCHANGED dbVars

Next ==
    \/ Start
    \/ SplitStep
    \/ RouteStep
    \/ Return

Spec == Init /\ [][Next]_vars

\* ------------------------------------------------------------- storage
\* The dates requests are made for.
Dates == {"2024-01-01", "2024-01-02"}

\* SELECT MAX(sequence_order) ... WHERE date = d: {} is NULL (Python None).
SqlMax(d) ==
    LET S == {r.sequence_order : r \in {x \in rows : x.date = d}}
    IN  IF S = {} THEN {} ELSE {CHOOSE m \in S : \A n \in S : n <= m}

\* Python `x or y`: y when x is None or 0, else x.
PyOr(x, y) == IF x = {} \/ x = {0} THEN y ELSE CHOOSE m \in x : TRUE

\* The dict built for one row by get_locations_by_date.
ListEntry(r) ==
    [id |-> r.id, sequence_order |-> r.sequence_order, break_after |-> r.break_after]

\* ORDER BY sequence_order: every order of the rows that is ascending in
\* sequence_order (SQL leaves the order of equal keys open).
OrderBySequence(S) ==
    {f \in [1..Cardinality(S) -> S] :
        /\ \A a, b \in 1..Cardinality(S) : a # b => f[a] # f[b]
        /\ \A a, b \in 1..Cardinality(S) : a < b => f[a].sequence_order <= f[b].sequence_order}

\* The state after init_db() on a fresh database; no aggregation is running.
InitDb ==
    /\ rows = {}
    /\ last_rowid = 0
    /\ listed = <<>>
    /\ listed_date = ""
    /\ inserted_before = <<>>
    /\ deleted = FALSE
    /\ MAPBOX_TOKEN = FALSE
    /\ locations = <<>>
    /\ pc = "idle"
    /\ i = 0
    /\ segments = <<>>
    /\ current_segment = <<>>
    /\ seg_idx = 0
    /\ total_distance = 0
    /\ route_geometries = <<>>
    /\ calls = <<>>
    /\ results = <<>>

\* POST /api/locations
add_location ==
    /\ last_rowid < MaxInserts
    /\ \E location_date \in Dates :
          LET max_order == SqlMax(location_date)
              next_order == PyOr(max_order, 0 - 1) + 1
              new_id == last_rowid + 1
          IN  /\ rows' = rows \cup {[id |-> new_id, date |-> location_date,
                                     sequence_order |-> next_order, break_after |-> 0]}
              /\ last_rowid' = new_id
              /\ inserted_before' =
                    Append(inserted_before,
                           [date |-> location_date,
                            n |-> Cardinality({k \in 1..Len(inserted_before) :
                                                 inserted_before[k].date = location_date})])
    /\ UNCHANGED <<listed, listed_date, deleted>>
    /\ UNCHANGED aggVars

\* DELETE /api/locations/<id>
delete_location ==
    /\ \E location_id \in 1..MaxInserts :
          /\ rows' = {r \in rows : r.id # location_id}
          /\ deleted' = (deleted \/ \E r \in rows : r.id = location_id)
    /\ UNCHANGED <<last_rowid, listed, listed_date, inserted_before>>
    /\ UNCHANGED aggVars

\* PUT /api/locations/<id>/break
toggle_break_after ==
    /\ \E location_id \in 1..MaxInserts, break_after \in BreakValues :
          rows' = {IF r.id = location_id THEN [r EXCEPT !.break_after = break_after] ELSE r :
                     r \in rows}
    /\ UNCHANGED <<last_rowid, listed, listed_date, inserted_before, deleted>>
    /\ UNCHANGED aggVars

\* GET /api/locations/<date>: the query and the list of dicts built from it.
get_locations_by_date ==
    /\ \E date_str \in Dates :
          /\ \E f \in OrderBySequence({r \in rows : r.date = date_str}) :
                listed' = [k \in 1..Len(f) |-> ListEntry(f[k])]
          /\ listed_date' = date_str
    /\ UNCHANGED <<rows, last_rowid, inserted_before, deleted>>
    /\ UNCHANGED aggVars

NextDb ==
    \/ add_location
    \/ delete_location
    \/ toggle_break_after
    \/ get_locations_by_date

SpecDb == InitDb /\ [][NextDb]_vars

\* ------------------------------------------------------------ properties
\* The provider reported success with at least one candidate route.
Success(resp) ==
    resp.exc = "none" /\ resp.json /\ resp.code = "Ok" /\ resp.routes # <<>>

RECURSIVE SumDistances(_)
SumDistances(rs) ==
    IF rs = <<>> THEN 0 ELSE rs[1].distance + SumDistances(Tail(rs))

\* The splitting loop has run to its end.
SplitDone == pc \in {"route", "done"} /\ Len(locations) >= 2

\* Waypoint k is the only one with break_after = 1.
OnlyBreak(k) ==
    /\ locations[k].break_after = 1
    /\ \A j \in 1..Len(locations) : j # k => locations[j].break_after = 0

\* Boundary after waypoint k, the single trailing waypoint merged into the first segment.
BoundaryAfter(k) ==
    LET n == Len(locations)
    IN  \/ segments = <<SubSeq(locations, 1, k), SubSeq(locations, k + 1, n)>>
        \/ k + 1 = n /\ segments = <<locations>>

\* C1: at every point of the splitting loop, every emitted segment has at
\* least 2 waypoints, all taken from the input, and the waypoints inside each
\* segment and across the list of segments are in input order.
C1_SegmentsOrdered ==
    \A s \in 1..Len(segments) :
        /\ Len(segments[s]) >= 2
        /\ \A a \in 1..Len(segments[s]) :
              /\ segments[s][a].id \in 1..Len(locations)
              /\ segments[s][a] = locations[segments[s][a].id]
              /\ \A b \in 1..Len(segments[s]) :
                    a < b => segments[s][a].id < segments[s][b].id
        /\ \A t \in 1..Len(segments) :
              s < t => segments[s][Len(segments[s])].id < segments[t][1].id

\* The loop emitted two segments, the first one closed by a break.
C1_Witness ==
    /\ pc = "done"
    /\ Len(segments) = 2
    /\ segments[1][Len(segments[1])].break_after = 1

\* C2 as stated: for every k that is not the last waypoint, k = first included,
\* a single break after k gives segments [0..k] and [k+1..end] (or the merged list).
C2_Original ==
    SplitDone =>
        \A k \in 1..(Len(locations) - 1) : OnlyBreak(k) => BoundaryAfter(k)

\* C2 amended: the boundary rule holds for every k but the first waypoint; a
\* single break after the first waypoint drops that one-waypoint segment, and
\* the rest of the list is the only segment if it has at least 2 waypoints.
C2_BoundaryAfterBreak ==
    SplitDone =>
        \A k \in 1..(Len(locations) - 1) :
            OnlyBreak(k) =>
                IF k >= 2 THEN BoundaryAfter(k)
                ELSE segments = IF Len(locations) >= 3
                                THEN <<SubSeq(locations, 2, Len(locations))>>
                                ELSE <<>>

\* A single break in the middle of the list gave two segments.
C2_Witness ==
    /\ pc = "done"
    /\ \E k \in 2..(Len(locations) - 2) :
          /\ OnlyBreak(k)
          /\ segments = <<SubSeq(locations, 1, k), SubSeq(locations, k + 1, Len(locations))>>

\* C3 as stated: A(break), B gives the one segment [A, B] and one provider call.
C3_Original ==
    (pc = "done" /\ locations = <<Waypoint(1, 1), Waypoint(2, 0)>>) =>
        (segments = <<locations>> /\ Len(calls) = 1)

\* C3 amended: A(break), B gives no segment: [A] is dropped when the break
\* closes it, B has no earlier segment to merge into; no provider call is
\* made and the result is (0, []).
C3_TwoWaypointsBreakFirst ==
    (pc = "done" /\ locations = <<Waypoint(1, 1), Waypoint(2, 0)>>) =>
        /\ segments = <<>>
        /\ calls = <<>>
        /\ total_distance = 0
        /\ route_geometries = <<>>

\* The run on A(break), B has gone through the loop and returned.
C3_Witness ==
    /\ pc = "done"
    /\ i = 2
    /\ locations = <<Waypoint(1, 1), Waypoint(2, 0)>>

\* C4: in every emitted segment a waypoint with break_after = 1 is the last
\* member: it is never immediately followed by another waypoint.
C4_BreakIsLast ==
    \A s \in 1..Len(segments) :
        \A a \in 1..(Len(segments[s]) - 1) : segments[s][a].break_after = 0

\* C10: every emitted segment is a contiguous run of the input list.
C10_Contiguous ==
    \A s \in 1..Len(segments) :
        \A a \in 1..(Len(segments[s]) - 1) :
            segments[s][a + 1].id = segments[s][a].id + 1

\* C5: the routing loop sends one request per emitted segment, in segment
\* order, the total is the sum of the distances the calls returned, a failed
\* call adds 0, no call stops the loop, and at the return every segment has
\* been routed; A, B(break), C, D gives the calls (A,B) and (C,D).
C5_OneCallPerSegment ==
    /\ pc # "raised"
    /\ Len(calls) = seg_idx
    /\ Len(results) = seg_idx
    /\ \A k \in 1..Len(calls) :
          /\ k <= Len(segments)
          /\ calls[k].coords = Coords(segments[k])
          /\ k <= Len(results) /\ ~Success(calls[k].resp) => results[k].distance = 0
    /\ total_distance = SumDistances(results)
    /\ pc = "done" => seg_idx = Len(segments)
    /\ (pc = "done" /\ locations = <<Waypoint(1, 0), Waypoint(2, 1),
                                     Waypoint(3, 0), Waypoint(4, 0)>>) =>
          /\ Len(calls) = 2
          /\ calls[1].coords = <<<<-1, 1>>, <<-2, 2>>>>
          /\ calls[2].coords = <<<<-3, 3>>, <<-4, 4>>>>
          /\ total_distance = results[1].distance + results[2].distance

\* A, B(break), C, D was routed: the first call returned a distance, the
\* second failed, and the loop still ran to the return.
C5_Witness ==
    /\ pc = "done"
    /\ locations = <<Waypoint(1, 0), Waypoint(2, 1), Waypoint(3, 0), Waypoint(4, 0)>>
    /\ Len(results) = 2
    /\ results[1].distance > 0
    /\ ~Success(calls[2].resp)
    /\ total_distance = results[1].distance

\* C6: no route call raises, and a call whose provider did not report
\* success with a candidate route returns (0, None); a non-zero distance or
\* a geometry is returned only on such a success.
C6_FailureIsZero ==
    /\ pc # "raised"
    /\ \A k \in 1..Len(results) :
          /\ k <= Len(calls)
          /\ ~Success(calls[k].resp) =>
                (results[k].distance = 0 /\ results[k].geometry = None)
          /\ (results[k].distance # 0 \/ results[k].geometry # None) =>
                Success(calls[k].resp)

\* OSRM answered "Ok" with no route (an IndexError inside the try block).
C6_Witness ==
    \E k \in 1..Len(results) :
        /\ calls[k].provider = "osrm"
        /\ calls[k].resp.code = "Ok"
        /\ calls[k].resp.routes = <<>>
        /\ results[k] = [distance |-> 0, geometry |-> None]

\* C7 as stated: without a token, and also when the Mapbox call fails, an
\* OSRM request with the same coordinates is sent.
C7_Original ==
    \A k \in 1..Len(results) :
        (\/ ~MAPBOX_TOKEN
         \/ \E j \in 1..Len(calls) :
               /\ calls[j].provider = "mapbox"
               /\ calls[j].coords = Coords(segments[k])
               /\ ~Success(calls[j].resp))
        => \E j \in 1..Len(calls) :
               /\ calls[j].provider = "osrm"
               /\ calls[j].coords = Coords(segments[k])

\* C7 amended: route falls back to OSRM, with the same ordered coordinates,
\* exactly when no token is present; with a token the one request goes to
\* Mapbox, and when it fails route returns (0, None) and OSRM is not called.
C7_FallbackOnlyWithoutToken ==
    /\ Len(calls) >= Len(results)
    /\ pc # "raised" => Len(calls) = Len(results)
    /\ \A k \in 1..Len(results) :
          /\ calls[k].coords = Coords(segments[k])
          /\ calls[k].provider = IF MAPBOX_TOKEN THEN "mapbox" ELSE "osrm"
          /\ (MAPBOX_TOKEN /\ ~Success(calls[k].resp)) =>
                results[k] = [distance |-> 0, geometry |-> None]

\* Without a token two segments were routed, both by OSRM.
C7_Witness ==
    /\ ~MAPBOX_TOKEN
    /\ pc = "done"
    /\ Len(calls) = 2
    /\ calls[1].provider = "osrm"
    /\ calls[2].provider = "osrm"
    /\ Success(calls[1].resp)

\* C8: with no deletion, every waypoint a listing returns has a
\* sequence_order equal to the number of waypoints inserted for its date
\* before it (0, 1, 2, ...).
C8_AppendOrder ==
    ~deleted =>
        \A k \in 1..Len(listed) :
            listed[k].sequence_order = inserted_before[listed[k].id].n

\* C9: no two stored waypoints of one date have the same sequence_order.
C9_UniqueOrder ==
    \A r1, r2 \in rows :
        (r1.id # r2.id /\ r1.date = r2.date) => r1.sequence_order # r2.sequence_order

====
